---- MODULE Spec2Model ----
(***************************************************************************)
(* notJoon/searcher: the Boyer-Moore single-pattern matcher and the        *)
(* Aho-Corasick multi-pattern automaton.  A matcher is built once (New)    *)
(* and then scanned any number of times (FindAll).  Go slices are modelled *)
(* as sequences; every index of the model is 0-based like the code's and   *)
(* goes through At/SetAt.                                                  *)
(***************************************************************************)
EXTENDS Integers, Sequences, FiniteSets, TLC

VARIABLES
  comp,      \* which package the behaviour exercises: "bm" or "ac"
  pc,        \* position of the constructor: "new", "trie", "seed", "bfs", "ready"
  pattern,   \* argument of boyermoore.New
  patterns,  \* argument of ahocorasick.New
  icArg,     \* argument ignoreCase of New
  bm,        \* the BoyerMoore struct: pat, ignoreCase, bcShift, gsShift
  ac,        \* the AhoCorasick struct: keywords, ignoreCase, next, fail, out
  idx,       \* buildTrie: index of the keyword being inserted
  queue,     \* buildFailureLinks: the FIFO of node ids
  bmRun,     \* per scanner: the locals of BoyerMoore._findAll
  acRun      \* per scanner: the locals of AhoCorasick._findAll

vars == <<comp, pc, pattern, patterns, icArg, bm, ac, idx, queue, bmRun, acRun>>

----------------------------------------------------------------------------
(* Bounds of the model *)

MaxPat == 3
MaxText == 5
MaxKeys == 2
MaxKeyLen == 2
ACMaxText == 3
ConcMaxLen == 2
ConcMaxKeys == 1

(* The bytes Boyer-Moore inputs are drawn from: 'A', 'a', 'b'. *)
Sigma == {65, 97, 98}

(* The bytes Aho-Corasick inputs and the interleaved scans are drawn from: 'A', 'a'. *)
Sigma2 == {65, 97}

(* The bytes of the "ushers" example: e h i r s u. *)
DemoBytes == {101, 104, 105, 114, 115, 117}

(* The slice of the byte range 0..255 the 256-entry tables are modelled on. *)
Byte == Sigma \cup DemoBytes

Seqs(S, n) == UNION {[1..k -> S] : k \in 0..n}

At(seq, i) == seq[i + 1]

SetAt(seq, i, v) == [seq EXCEPT ![i + 1] = v]

(* The scanners (goroutines) that may call FindAll on the one matcher. *)
Scanners == {1, 2}

----------------------------------------------------------------------------
(* package boyermoore *)

(* variant: the text byte is compared as it is *)
normCharNone(ic, c) == c

normChar(ic, c) == IF ic /\ c >= 65 /\ c <= 90 THEN c + 32 ELSE c

foldPattern(p, ic) ==
  [i \in 1..Len(p) |-> IF ic /\ p[i] >= 65 /\ p[i] <= 90 THEN p[i] + 32 ELSE p[i]]

RECURSIVE bcLoop(_, _, _)
bcLoop(pat, i, tbl) ==
  IF i < Len(pat) THEN bcLoop(pat, i + 1, [tbl EXCEPT ![At(pat, i)] = i]) ELSE tbl

(* variant: the table keeps the first occurrence of a byte, not the last *)
buildBadCharShiftFirst(pat) ==
  [c \in Byte |->
     IF \E i \in 0..(Len(pat) - 1) : At(pat, i) = c
     THEN CHOOSE i \in 0..(Len(pat) - 1) :
            At(pat, i) = c /\ \A h \in 0..(i - 1) : At(pat, h) # c
     ELSE -1]

buildBadCharShift(pat) == bcLoop(pat, 0, [c \in Byte |-> -1])

(* the inner loop of the suffix pass: for g >= 0 && pat[g] == pat[g+m-1-f] { g-- } *)
RECURSIVE suffixBack(_, _, _)
suffixBack(pat, g, f) ==
  IF g >= 0 /\ At(pat, g) = At(pat, g + Len(pat) - 1 - f)
  THEN suffixBack(pat, g - 1, f)
  ELSE g

RECURSIVE suffixLoop(_, _, _, _, _)
suffixLoop(pat, i, g, f, suffix) ==
  LET m == Len(pat) IN
  IF i < 0 THEN suffix
  ELSE IF i > g /\ At(suffix, i + m - 1 - f) < i - g
       THEN suffixLoop(pat, i - 1, g, f, SetAt(suffix, i, At(suffix, i + m - 1 - f)))
       ELSE LET g2 == suffixBack(pat, i, i)
            IN suffixLoop(pat, i - 1, g2, i, SetAt(suffix, i, i - g2))

buildSuffix(pat) ==
  LET m == Len(pat)
  IN suffixLoop(pat, m - 2, m - 1, m - 1, [k \in 1..m |-> IF k = m THEN m ELSE 0])

(* for j < m-1-i { if gsShift[j] == m { gsShift[j] = m-1-i }; j++ } *)
RECURSIVE gsFill(_, _, _, _)
gsFill(m, i, j, gs) ==
  IF j < m - 1 - i
  THEN gsFill(m, i, j + 1, IF At(gs, j) = m THEN SetAt(gs, j, m - 1 - i) ELSE gs)
  ELSE [j |-> j, gs |-> gs]

RECURSIVE gsPrefixLoop(_, _, _, _)
gsPrefixLoop(suffix, i, j, gs) ==
  LET m == Len(suffix) IN
  IF i < 0 THEN gs
  ELSE IF At(suffix, i) = i + 1
       THEN LET r == gsFill(m, i, j, gs) IN gsPrefixLoop(suffix, i - 1, r.j, r.gs)
       ELSE gsPrefixLoop(suffix, i - 1, j, gs)

RECURSIVE gsSuffixLoop(_, _, _)
gsSuffixLoop(suffix, i, gs) ==
  LET m == Len(suffix) IN
  IF i < m - 1
  THEN gsSuffixLoop(suffix, i + 1, SetAt(gs, m - 1 - At(suffix, i), m - 1 - i))
  ELSE gs

(* variant: the table is not set to m before the two rules run *)
buildGoodSuffixShiftNoInit(pat) ==
  LET m == Len(pat)
      suffix == buildSuffix(pat)
      gs0 == [k \in 1..m |-> 0]
  IN gsSuffixLoop(suffix, 0, gsPrefixLoop(suffix, m - 1, 0, gs0))

buildGoodSuffixShift(pat) ==
  LET m == Len(pat)
      suffix == buildSuffix(pat)
      gs0 == [k \in 1..m |-> m]
  IN gsSuffixLoop(suffix, 0, gsPrefixLoop(suffix, m - 1, 0, gs0))

bmNew(p, ic) ==
  IF Len(p) = 0
  THEN [pat |-> <<>>, ignoreCase |-> ic, bcShift |-> [c \in Byte |-> 0], gsShift |-> <<>>]
  ELSE LET q == foldPattern(p, ic)
       IN [pat |-> q, ignoreCase |-> ic,
           bcShift |-> buildBadCharShift(q),
           gsShift |-> buildGoodSuffixShift(q)]

(* for j >= 0 && bm.pat[j] == bm.normChar(data[s+j]) { j-- } *)
RECURSIVE matchBack(_, _, _, _)
matchBack(b, data, s, j) ==
  IF j >= 0 /\ At(b.pat, j) = normChar(b.ignoreCase, At(data, s + j))
  THEN matchBack(b, data, s, j - 1)
  ELSE j

(* variant: the window is skipped whole after a full match *)
postMatchShiftWindow(b, data, s) == Len(b.pat)

(* the shift after a full match at window start s *)
postMatchShift(b, data, s) ==
  LET m == Len(b.pat) IN
  IF s + m < Len(data)
  THEN m - b.bcShift[normChar(b.ignoreCase, At(data, s + m))]
  ELSE 1

(* the shift after a mismatch at pattern position j *)
mismatchShift(b, data, s, j) ==
  LET bc == j - b.bcShift[normChar(b.ignoreCase, At(data, s + j))]
      badCharShift == IF bc < 1 THEN 1 ELSE bc
      goodSuffixShift == At(b.gsShift, j)
  IN IF badCharShift > goodSuffixShift THEN badCharShift ELSE goodSuffixShift

(* variant: the empty pattern is not turned away *)
bmEarlyReturnNoEmpty(m, n) == n = 0 \/ m > n

bmEarlyReturn(m, n) == m = 0 \/ n = 0 \/ m > n

(* one iteration of the scan loop, on the locals r = [pc, data, s, results] *)
bmIter(b, r) ==
  LET m == Len(b.pat)
      n == Len(r.data)
      j == matchBack(b, r.data, r.s, m - 1)
      s2 == IF j < 0 THEN r.s + postMatchShift(b, r.data, r.s)
            ELSE r.s + mismatchShift(b, r.data, r.s, j)
  IN [pc |-> IF s2 <= n - m THEN "scan" ELSE "done",
      data |-> r.data,
      s |-> s2,
      results |-> IF j < 0 THEN Append(r.results, r.s) ELSE r.results]

bmStart(b, data) ==
  [pc |-> IF bmEarlyReturn(Len(b.pat), Len(data)) THEN "done" ELSE "scan",
   data |-> data, s |-> 0, results |-> <<>>]

RECURSIVE bmLoop(_, _)
bmLoop(b, r) == IF r.pc = "scan" THEN bmLoop(b, bmIter(b, r)) ELSE r

(* BoyerMoore.FindAll run from call to return *)
bmFindAll(b, data) == bmLoop(b, bmStart(b, data)).results

bmFindFirst(res) == IF Len(res) > 0 THEN res[1] ELSE -1

bmContains(res) == bmFindFirst(res) # -1

bmCount(res) == Len(res)

bmIdle == [pc |-> "idle", data |-> <<>>, s |-> 0, results |-> <<>>]
----------------------------------------------------------------------------
(* package ahocorasick *)

RECURSIVE ascending(_)
ascending(S) ==
  IF S = {} THEN <<>>
  ELSE LET mn == CHOOSE x \in S : \A y \in S : x <= y
       IN <<mn>> \o ascending(S \ {mn})

(* the byte values in the order "for c := 0; c < 256; c++" visits them *)
ByteSeq == ascending(Byte)

zeroRow == [c \in Byte |-> 0]

acNorm(ic, c) == IF ic /\ c >= 65 /\ c <= 90 THEN c + 32 ELSE c

foldKeyword(p, ic) ==
  [i \in 1..Len(p) |-> IF ic /\ p[i] >= 65 /\ p[i] <= 90 THEN p[i] + 32 ELSE p[i]]

(* New up to the call of buildTrie: the keywords and the root node *)
acNew(ps, ic) ==
  [keywords |-> [k \in 1..Len(ps) |-> foldKeyword(ps[k], ic)],
   ignoreCase |-> ic,
   next |-> <<zeroRow>>,
   fail |-> <<0>>,
   out |-> << <<>> >>]

(* buildTrie, the body of the outer loop: insert keyword id from byte pos on *)
RECURSIVE insertKeyword(_, _, _, _)
insertKeyword(a, id, pos, node) ==
  LET k == At(a.keywords, id) IN
  IF pos < Len(k)
  THEN LET cc == At(k, pos)
           a2 == IF At(a.next, node)[cc] = 0
                 THEN [a EXCEPT
                         !.next = Append(SetAt(a.next, node,
                                    [At(a.next, node) EXCEPT ![cc] = Len(a.next)]),
                                    zeroRow),
                         !.fail = Append(a.fail, 0),
                         !.out = Append(a.out, <<>>)]
                 ELSE a
       IN insertKeyword(a2, id, pos + 1, At(a2.next, node)[cc])
  ELSE [a EXCEPT !.out = SetAt(a.out, node, Append(At(a.out, node), id))]

(* buildFailureLinks, step 1: the root's children *)
RECURSIVE seedLoop(_, _)
seedLoop(st, ci) ==
  IF ci > Len(ByteSeq) THEN st
  ELSE LET c == ByteSeq[ci]
           nx == At(st.a.next, 0)[c]
       IN IF nx # 0
          THEN seedLoop([a |-> [st.a EXCEPT !.fail = SetAt(st.a.fail, nx, 0)],
                         queue |-> Append(st.queue, nx)], ci + 1)
          ELSE seedLoop([a |-> [st.a EXCEPT
                                  !.next = SetAt(st.a.next, 0,
                                             [At(st.a.next, 0) EXCEPT ![c] = 0])],
                         queue |-> st.queue], ci + 1)

(* variant: the failure target's outputs are not inherited *)
inheritOutNone(out, nx, fl) == out

(* variant: the inherited outputs are put before the node's own *)
inheritOutFirst(out, nx, fl) == SetAt(out, nx, At(out, fl) \o At(out, nx))

(* ac.out[nx] = append(ac.out[nx], ac.out[ac.fail[nx]]...) *)
inheritOut(out, nx, fl) == SetAt(out, nx, At(out, nx) \o At(out, fl))

(* buildFailureLinks, step 2: the edges of the dequeued node f *)
RECURSIVE edgeLoop(_, _, _)
edgeLoop(st, f, ci) ==
  IF ci > Len(ByteSeq) THEN st
  ELSE LET c == ByteSeq[ci]
           a == st.a
           nx == At(a.next, f)[c]
       IN IF nx # 0
          THEN LET failTo == At(a.fail, f)
                   fl == At(a.next, failTo)[c]
               IN edgeLoop([a |-> [a EXCEPT !.fail = SetAt(a.fail, nx, fl),
                                            !.out = inheritOut(a.out, nx, fl)],
                            queue |-> Append(st.queue, nx)], f, ci + 1)
          ELSE edgeLoop([a |-> [a EXCEPT
                                  !.next = SetAt(a.next, f,
                                             [At(a.next, f) EXCEPT
                                                ![c] = At(a.next, At(a.fail, f))[c]])],
                         queue |-> st.queue], f, ci + 1)

(* variant: the node taken from the queue is the one added last *)
bfsStepLifo(st) ==
  edgeLoop([a |-> st.a, queue |-> SubSeq(st.queue, 1, Len(st.queue) - 1)],
           st.queue[Len(st.queue)], 1)

bfsStep(st) == edgeLoop([a |-> st.a, queue |-> Tail(st.queue)], Head(st.queue), 1)

(* the records appended for the node reached at byte i *)
emit(a, node, i) ==
  LET o == At(a.out, node)
  IN [k \in 1..Len(o) |->
        [PatternIndex |-> o[k],
         Start |-> i - Len(At(a.keywords, o[k])) + 1,
         End |-> i]]

(* one iteration of the scan loop, on the locals r = [pc, data, i, node, matches] *)
acIter(a, r) ==
  LET cc == acNorm(a.ignoreCase, At(r.data, r.i))
      node2 == At(a.next, r.node)[cc]
  IN [pc |-> IF r.i + 1 < Len(r.data) THEN "scan" ELSE "done",
      data |-> r.data,
      i |-> r.i + 1,
      node |-> node2,
      matches |-> r.matches \o emit(a, node2, r.i)]

acStart(data) ==
  [pc |-> IF Len(data) > 0 THEN "scan" ELSE "done",
   data |-> data, i |-> 0, node |-> 0, matches |-> <<>>]

RECURSIVE acLoop(_, _)
acLoop(a, r) == IF r.pc = "scan" THEN acLoop(a, acIter(a, r)) ELSE r

(* AhoCorasick.FindAll run from call to return *)
acFindAll(a, data) == acLoop(a, acStart(data)).matches

acContains(ms) == Len(ms) > 0

acCount(ms) == Len(ms)

acIdle == [pc |-> "idle", data |-> <<>>, i |-> 0, node |-> 0, matches |-> <<>>]

(* ahocorasick.New run from call to return *)
RECURSIVE trieLoop(_, _)
trieLoop(a, id) ==
  IF id < Len(a.keywords) THEN trieLoop(insertKeyword(a, id, 0, 0), id + 1) ELSE a

RECURSIVE bfsLoop(_)
bfsLoop(st) == IF Len(st.queue) > 0 THEN bfsLoop(bfsStep(st)) ELSE st

acBuild(ps, ic) ==
  bfsLoop(seedLoop([a |-> trieLoop(acNew(ps, ic), 0), queue |-> <<>>], 1)).a

----------------------------------------------------------------------------
(* The state machine *)

emptyBM == [pat |-> <<>>, ignoreCase |-> FALSE, bcShift |-> zeroRow, gsShift |-> <<>>]

emptyAC == acNew(<<>>, FALSE)

(* {"he", "she", "his", "hers"} and "ushers" *)
UshersPatterns == << <<104, 101>>, <<115, 104, 101>>, <<104, 105, 115>>, <<104, 101, 114, 115>> >>

UshersText == <<117, 115, 104, 101, 114, 115>>

InitWith(Pats, Lists) ==
  /\ comp \in {"bm", "ac"}
  /\ pc = "new"
  /\ icArg \in BOOLEAN
  /\ pattern \in (IF comp = "bm" THEN Pats ELSE {<<>>})
  /\ patterns \in (IF comp = "ac" THEN Lists ELSE {<<>>})
  /\ bm = emptyBM
  /\ ac = emptyAC
  /\ idx = 0
  /\ queue = <<>>
  /\ bmRun = [k \in Scanners |-> bmIdle]
  /\ acRun = [k \in Scanners |-> acIdle]

Init ==
  InitWith(Seqs(Sigma, MaxPat),
           Seqs(Seqs(Sigma2, MaxKeyLen), MaxKeys) \cup {UshersPatterns})

(* boyermoore.New *)
BMNew ==
  /\ comp = "bm" /\ pc = "new"
  /\ bm' = bmNew(pattern, icArg)
  /\ pc' = "ready"
  /\ UNCHANGED <<comp, pattern, patterns, icArg, ac, idx, queue, bmRun, acRun>>

(* ahocorasick.New, up to buildTrie *)
ACNew ==
  /\ comp = "ac" /\ pc = "new"
  /\ ac' = acNew(patterns, icArg)
  /\ idx' = 0
  /\ pc' = IF Len(patterns) > 0 THEN "trie" ELSE "seed"
  /\ UNCHANGED <<comp, pattern, patterns, icArg, bm, queue, bmRun, acRun>>

(* buildTrie: one keyword *)
BuildTrie ==
  /\ pc = "trie"
  /\ ac' = insertKeyword(ac, idx, 0, 0)
  /\ idx' = idx + 1
  /\ pc' = IF idx + 1 < Len(ac.keywords) THEN "trie" ELSE "seed"
  /\ UNCHANGED <<comp, pattern, patterns, icArg, bm, queue, bmRun, acRun>>

(* buildFailureLinks: the root's children *)
SeedRoot ==
  /\ pc = "seed"
  /\ LET st == seedLoop([a |-> ac, queue |-> <<>>], 1)
     IN /\ ac' = st.a
        /\ queue' = st.queue
        /\ pc' = IF Len(st.queue) > 0 THEN "bfs" ELSE "ready"
  /\ UNCHANGED <<comp, pattern, patterns, icArg, bm, idx, bmRun, acRun>>

(* buildFailureLinks: one dequeued node *)
Bfs ==
  /\ pc = "bfs"
  /\ LET st == bfsStep([a |-> ac, queue |-> queue])
     IN /\ ac' = st.a
        /\ queue' = st.queue
        /\ pc' = IF Len(st.queue) > 0 THEN "bfs" ELSE "ready"
  /\ UNCHANGED <<comp, pattern, patterns, icArg, bm, idx, bmRun, acRun>>

(* BoyerMoore.FindAll: the call, up to the first loop test *)
BMFindAll(k, Texts, again) ==
  /\ comp = "bm" /\ pc = "ready"
  /\ bmRun[k].pc = "idle" \/ (again /\ bmRun[k].pc = "done")
  /\ \E txt \in Texts : bmRun' = [bmRun EXCEPT ![k] = bmStart(bm, txt)]
  /\ UNCHANGED <<comp, pc, pattern, patterns, icArg, bm, ac, idx, queue, acRun>>

(* BoyerMoore._findAll: one window *)
BMStep(k) ==
  /\ bmRun[k].pc = "scan"
  /\ bmRun' = [bmRun EXCEPT ![k] = bmIter(bm, bmRun[k])]
  /\ UNCHANGED <<comp, pc, pattern, patterns, icArg, bm, ac, idx, queue, acRun>>

(* AhoCorasick.FindAll: the call *)
ACFindAll(k, Texts, again) ==
  /\ comp = "ac" /\ pc = "ready"
  /\ acRun[k].pc = "idle" \/ (again /\ acRun[k].pc = "done")
  /\ \E txt \in Texts : acRun' = [acRun EXCEPT ![k] = acStart(txt)]
  /\ UNCHANGED <<comp, pc, pattern, patterns, icArg, bm, ac, idx, queue, bmRun>>

(* variant: the scan takes the outputs it reports out of the node's output list *)
ACStepDrain(k) ==
  /\ acRun[k].pc = "scan"
  /\ acRun' = [acRun EXCEPT ![k] = acIter(ac, acRun[k])]
  /\ ac' = [ac EXCEPT !.out = SetAt(ac.out, acIter(ac, acRun[k]).node, <<>>)]
  /\ UNCHANGED <<comp, pc, pattern, patterns, icArg, bm, idx, queue, bmRun>>

(* AhoCorasick._findAll: one byte *)
ACStep(k) ==
  /\ acRun[k].pc = "scan"
  /\ acRun' = [acRun EXCEPT ![k] = acIter(ac, acRun[k])]
  /\ UNCHANGED <<comp, pc, pattern, patterns, icArg, bm, ac, idx, queue, bmRun>>

Build == BMNew \/ ACNew \/ BuildTrie \/ SeedRoot \/ Bfs

Next ==
  \/ BMNew
  \/ ACNew
  \/ BuildTrie
  \/ SeedRoot
  \/ Bfs
  \/ BMFindAll(1, Seqs(Sigma, MaxText), FALSE)
  \/ BMStep(1)
  \/ ACFindAll(1, Seqs(Sigma2, ACMaxText) \cup {UshersText}, FALSE)
  \/ ACStep(1)

(* One matcher, one scan: every constructor input and every scan input. *)
Spec == Init /\ [][Next]_vars

InitConc ==
  InitWith(Seqs(Sigma2, ConcMaxLen), Seqs(Seqs(Sigma2, ConcMaxLen), ConcMaxKeys))

NextConc ==
  \/ BMNew
  \/ ACNew
  \/ BuildTrie
  \/ SeedRoot
  \/ Bfs
  \/ \E k \in Scanners : BMFindAll(k, Seqs(Sigma2, ConcMaxLen), TRUE)
  \/ \E k \in Scanners : BMStep(k)
  \/ \E k \in Scanners : ACFindAll(k, Seqs(Sigma2, ConcMaxLen), TRUE)
  \/ \E k \in Scanners : ACStep(k)

(* One matcher, scanned again and again by several scanners whose steps interleave. *)
SpecConc == InitConc /\ [][NextConc]_vars

----------------------------------------------------------------------------
(* What the properties are stated in: the arguments as given, the bytes    *)
(* A-Z folded to a-z, and occurrences by direct comparison.                *)

Range(seq) == {seq[i] : i \in 1..Len(seq)}

AsciiLower(c) == IF c \in 65..90 THEN c + 32 ELSE c

LowerSeq(t) == [i \in 1..Len(t) |-> AsciiLower(t[i])]

SameByte(ic, x, y) == IF ic THEN AsciiLower(x) = AsciiLower(y) ELSE x = y

(* p occurs in t at start s under the case policy ic *)
Occurs(ic, p, t, s) ==
  /\ s \in 0..(Len(t) - Len(p))
  /\ \A j \in 0..(Len(p) - 1) : SameByte(ic, At(t, s + j), At(p, j))

Occurrences(ic, p, t) == {s \in 0..(Len(t) - Len(p)) : Occurs(ic, p, t, s)}

StrictlyIncreasing(seq) == \A i \in 1..(Len(seq) - 1) : seq[i] < seq[i + 1]

BMDone(k) == comp = "bm" /\ bmRun[k].pc = "done"

ACDone(k) == comp = "ac" /\ acRun[k].pc = "done"

----------------------------------------------------------------------------
(* C1: Boyer-Moore FindAll is exact.  For a non-empty pattern, the result   *)
(* of a finished scan is strictly increasing and holds exactly the starts  *)
(* s in 0..n-m at which the text equals the pattern under the case policy. *)
C1_FindAllExact ==
  \A k \in Scanners :
    BMDone(k) /\ Len(pattern) > 0 =>
      /\ StrictlyIncreasing(bmRun[k].results)
      /\ Range(bmRun[k].results) = Occurrences(icArg, pattern, bmRun[k].data)

(* a finished case-insensitive scan that slid over a non-occurrence and found two *)
C1_Witness ==
  \E k \in Scanners :
    /\ BMDone(k) /\ icArg /\ Len(pattern) >= 2
    /\ Len(bmRun[k].results) >= 2
    /\ \E s \in 0..(Len(bmRun[k].data) - Len(pattern)) :
         ~Occurs(icArg, pattern, bmRun[k].data, s)

MatcherFor(p, ic) ==
  IF comp = "bm" /\ pc = "ready" /\ p = pattern /\ ic = icArg THEN bm ELSE bmNew(p, ic)

C3_NonOverlapping ==
  \A k \in Scanners :
    BMDone(k) =>
      \A i, j \in 1..bmCount(bmRun[k].results) :
        i < j => bmRun[k].results[j] >= bmRun[k].results[i] + Len(pattern)

(* the record FindAll owes for pattern id occurring at start s *)
MatchOf(id, s) ==
  [PatternIndex |-> id, Start |-> s, End |-> s + Len(At(patterns, id)) - 1]

C5_RecordsValid ==
  \A k \in Scanners :
    ACDone(k) =>
      \A r \in Range(acRun[k].matches) :
        /\ r.PatternIndex \in 0..(Len(patterns) - 1)
        /\ 0 <= r.Start /\ r.Start <= r.End /\ r.End < Len(acRun[k].data)
        /\ r.End - r.Start + 1 = Len(At(patterns, r.PatternIndex))
        /\ Occurs(icArg, At(patterns, r.PatternIndex), acRun[k].data, r.Start)

PatLen(r) == Len(At(patterns, r.PatternIndex))

(* what FindAll returns for {he, she, his, hers} on "ushers", by the test *)
UshersMatches ==
  << [PatternIndex |-> 1, Start |-> 1, End |-> 3],
     [PatternIndex |-> 0, Start |-> 2, End |-> 3],
     [PatternIndex |-> 3, Start |-> 2, End |-> 5] >>

Degenerate(p, t) == Len(p) = 0 \/ Len(t) = 0 \/ Len(p) > Len(t)

(* C7: degenerate inputs give the empty result and no out-of-range access.  *)
(* Boyer-Moore enters its scan loop only with 1 <= m <= n and keeps the     *)
(* window inside the text; with an empty pattern, an empty text or a       *)
(* pattern longer than the text FindAll is empty, FindFirst -1, Contains   *)
(* false and Count 0.  The automaton of the empty pattern list is the root *)
(* alone and never matches, and no automaton matches on the empty text.    *)
C7_DegenerateEmpty ==
  /\ \A k \in Scanners :
       comp = "bm" /\ bmRun[k].pc = "scan" =>
         /\ ~Degenerate(bm.pat, bmRun[k].data)
         /\ 0 <= bmRun[k].s /\ bmRun[k].s <= Len(bmRun[k].data) - Len(bm.pat)
  /\ \A k \in Scanners :
       BMDone(k) /\ Degenerate(pattern, bmRun[k].data) =>
         /\ bmRun[k].results = <<>>
         /\ bmFindFirst(bmRun[k].results) = -1
         /\ ~bmContains(bmRun[k].results)
         /\ bmCount(bmRun[k].results) = 0
  /\ comp = "ac" /\ pc = "ready" /\ patterns = <<>> =>
       Len(ac.next) = 1 /\ Len(ac.fail) = 1 /\ Len(ac.out) = 1
  /\ \A k \in Scanners :
       ACDone(k) /\ (patterns = <<>> \/ acRun[k].data = <<>>) =>
         /\ acRun[k].matches = <<>>
         /\ ~acContains(acRun[k].matches)
         /\ acCount(acRun[k].matches) = 0

(* the empty pattern's matcher has returned from FindAll on a non-empty text *)
C7_Witness ==
  \E k \in Scanners : BMDone(k) /\ pattern = <<>> /\ Len(bmRun[k].data) > 0

LowerAll(ps) == [i \in 1..Len(ps) |-> LowerSeq(ps[i])]

(* C8: a matcher built with ignoreCase = true returns what the matcher      *)
(* built with ignoreCase = false from the patterns with A-Z mapped to a-z  *)
(* returns on the text with A-Z mapped to a-z, for both matchers; the      *)
(* indices are those of the text as given.                                 *)
C8_FoldEquivalence ==
  \A k \in Scanners :
    /\ BMDone(k) /\ icArg =>
         bmRun[k].results =
           bmFindAll(bmNew(LowerSeq(pattern), FALSE), LowerSeq(bmRun[k].data))
    /\ ACDone(k) /\ icArg =>
         acRun[k].matches =
           acFindAll(acBuild(LowerAll(patterns), FALSE), LowerSeq(acRun[k].data))

(* a case-insensitive scan reported a match whose text differs from the     *)
(* pattern, as given, in the case of a byte                                 *)
C8_Witness ==
  \E k \in Scanners :
    /\ BMDone(k) /\ icArg
    /\ \E s \in Range(bmRun[k].results) :
         \E j \in 0..(Len(pattern) - 1) : At(pattern, j) # At(bmRun[k].data, s + j)

(* C9: matchers are read-only after construction.  No step taken once the  *)
(* matcher is built changes the pattern, the shift tables, the keywords,   *)
(* the transition table, the fail links or the output lists, and every     *)
(* scan, however its steps interleave with other scanners' and whatever     *)
(* was scanned before, returns what FindAll returns on that input when run *)
(* alone on the matcher as built; so two calls on one input agree.         *)
C9_ReadOnly ==
  /\ [][pc = "ready" => bm' = bm /\ ac' = ac]_vars
  /\ [](\A k \in Scanners :
          /\ BMDone(k) =>
               bmRun[k].results = bmFindAll(bmNew(pattern, icArg), bmRun[k].data)
          /\ ACDone(k) =>
               acRun[k].matches = acFindAll(acBuild(patterns, icArg), acRun[k].data))

(* one scanner has returned matches while another is in the middle of a     *)
(* different text                                                           *)
C9_Witness ==
  \E j, k \in Scanners :
    /\ j # k /\ ACDone(j) /\ Len(acRun[j].matches) > 0
    /\ acRun[k].pc = "scan" /\ acRun[k].i > 0
    /\ acRun[k].data # acRun[j].data

(* the node the trie reaches on keyword k from byte pos on *)
RECURSIVE walk(_, _, _)
walk(k, pos, node) ==
  IF pos < Len(k) THEN walk(k, pos + 1, At(ac.next, node)[At(k, pos)]) ELSE node

(* the pattern IDs whose keyword ends at node v *)
OwnEnds(v) == {id \in 0..(Len(ac.keywords) - 1) : walk(At(ac.keywords, id), 0, 0) = v}

(* C10: output-set closure of the built automaton.  For every pattern list  *)
(* and every non-root node v, out[v] is v's own terminal IDs together with *)
(* all of out[fail[v]], the root's direct children included.               *)
C10_OutClosed ==
  comp = "ac" /\ pc = "ready" =>
    \A v \in 1..(Len(ac.next) - 1) :
      Range(At(ac.out, v)) = OwnEnds(v) \cup Range(At(ac.out, At(ac.fail, v)))

(* the prefixes of the keywords: the strings the trie's nodes spell *)
Prefixes ==
  {<<>>} \cup UNION {{SubSeq(k, 1, n) : n \in 0..Len(k)} : k \in Range(ac.keywords)}

(* the string node v spells *)
Spell(v) == CHOOSE p \in Prefixes : walk(p, 0, 0) = v

(* the longest suffix of w that is a prefix of some keyword *)
LongestSuffixPrefix(w) ==
  LET cand == {n \in 0..Len(w) : SubSeq(w, Len(w) - n + 1, Len(w)) \in Prefixes}
      best == CHOOSE n \in cand : \A h \in cand : h <= n
  IN SubSeq(w, Len(w) - best + 1, Len(w))

(* row v of the transition table is the automaton's: every entry is a node, *)
(* the one that spells the longest suffix of Spell(v) + c that is a prefix  *)
RowResolved(v) ==
  \A c \in Byte :
    LET t == At(ac.next, v)[c]
    IN /\ t \in 0..(Len(ac.next) - 1)
       /\ Spell(t) = LongestSuffixPrefix(Append(Spell(v), c))

(* New has returned and no scan has been started yet *)
JustBuilt == pc = "ready" /\ \A k \in Scanners : acRun[k].pc = "idle"

(* C11: the finished transition table is the total Aho-Corasick automaton.  *)
(* When New returns, for every node v and every byte c, next[v][c] is an   *)
(* existing node and spells the longest suffix of (the string v spells,    *)
(* followed by c) that is a prefix of some pattern, the root when there is *)
(* none; and in the breadth-first pass the node at the head of the queue   *)
(* has a failure target that has left the queue with its row resolved.     *)
C11_TotalAutomaton ==
  /\ comp = "ac" /\ JustBuilt =>
       \A v \in 0..(Len(ac.next) - 1) : RowResolved(v)
  /\ comp = "ac" /\ pc = "bfs" =>
       LET g == At(ac.fail, Head(queue))
       IN g \notin Range(queue) /\ RowResolved(g)

(* a built automaton in which a node at depth two or more, on a byte it has *)
(* no child for, goes to a node other than the root                        *)
C11_Witness ==
  /\ comp = "ac" /\ pc = "ready"
  /\ \E v \in 1..(Len(ac.next) - 1), c \in Byte :
       /\ Len(Spell(v)) >= 2
       /\ Append(Spell(v), c) \notin Prefixes
       /\ At(ac.next, v)[c] # 0

(* the iterations the scan loop still runs from the locals r, counted up to fuel *)
RECURSIVE ItersLeft(_, _, _)
ItersLeft(b, r, fuel) ==
  IF r.pc = "scan" /\ fuel > 0 THEN 1 + ItersLeft(b, bmIter(b, r), fuel - 1) ELSE 0

(* C12: the Boyer-Moore scan makes progress and ends.  For a non-empty      *)
(* pattern every good-suffix entry lies in 1..m and m - bcShift[c] >= 1;   *)
(* in the loop the window stays inside the text, the shift taken (after a  *)
(* match, or max(max(1, j - bcShift[c]), gsShift[j]) after a mismatch) is  *)
(* at least 1, the next window start is greater than this one, and the     *)
(* loop runs at most n-m+1 iterations in all.                              *)
C12_Progress ==
  /\ comp = "bm" /\ pc = "ready" /\ Len(pattern) > 0 =>
       LET m == Len(bm.pat)
       IN /\ Len(bm.gsShift) = m
          /\ \A j \in 0..(m - 1) : At(bm.gsShift, j) \in 1..m
          /\ \A c \in Byte : bm.bcShift[c] \in -1..(m - 1) /\ m - bm.bcShift[c] >= 1
  /\ \A k \in Scanners :
       comp = "bm" /\ bmRun[k].pc = "scan" =>
         LET r == bmRun[k]
             m == Len(bm.pat)
             n == Len(r.data)
             j == matchBack(bm, r.data, r.s, m - 1)
         IN /\ 0 <= r.s /\ r.s <= n - m
            /\ j < 0 => postMatchShift(bm, r.data, r.s) >= 1
            /\ j >= 0 => mismatchShift(bm, r.data, r.s, j) >= 1
            /\ bmIter(bm, r).s > r.s
            /\ ItersLeft(bm, r, n + 1) <= n - m + 1 - r.s

(* a scan that has reported a match and moved on, about to shift by two or  *)
(* more on a mismatch                                                      *)
C12_Witness ==
  \E k \in Scanners :
    /\ comp = "bm" /\ bmRun[k].pc = "scan"
    /\ bmRun[k].s > 0 /\ Len(bmRun[k].results) >= 1
    /\ matchBack(bm, bmRun[k].data, bmRun[k].s, Len(bm.pat) - 1) >= 0
    /\ bmIter(bm, bmRun[k]).s >= bmRun[k].s + 2

====
